---- MODULE Spec2Model ----
(***************************************************************************)
(* Model of the URL text-recovery pipeline of extract_links.py:            *)
(* rejoin_wrapped_urls, URL_PATTERN.findall, _fix_ocr_artifacts and        *)
(* _deduplicate, composed by find_urls.                                    *)
(*                                                                         *)
(* A string is a sequence of characters; a character is a one-character    *)
(* TLA+ string.  The two non-ASCII bullet glyphs of BULLET_PREFIXES are    *)
(* named by their code points.                                             *)
(***************************************************************************)
EXTENDS Integers, Sequences, FiniteSets, TLC

VARIABLES
    pc,        \* position in the code being run
    text,      \* find_urls: the argument
    lines,     \* rejoin_wrapped_urls: text.split("\n")
    idx,       \* rejoin_wrapped_urls: index of the next line of the loop
    merged,    \* rejoin_wrapped_urls: the output list
    joined,    \* indices of the lines the loop merged into their predecessor
    rejoined,  \* find_urls: the text returned by rejoin_wrapped_urls
    pos,       \* URL_PATTERN.findall: scan position
    urls,      \* find_urls: the matcher hits (line 221)
    fixed,     \* find_urls: the corrected hits (line 222)
    result,    \* find_urls: the returned list
    url,       \* _fix_ocr_artifacts: the argument
    host,      \* _fix_ocr_artifacts: match.group(1)
    segs,      \* _fix_ocr_artifacts: path.split("/")
    fixedSegs, \* _fix_ocr_artifacts: fixed_segments
    out,       \* _fix_ocr_artifacts: the returned string
    first,     \* the URL the corrector was given on its first application
    pass       \* how many times _fix_ocr_artifacts has been applied

vars == <<pc, text, lines, idx, merged, joined, rejoined, pos, urls, fixed,
          result, url, host, segs, fixedSegs, out, first, pass>>

-----------------------------------------------------------------------------
(* Character classes *)

Digits == {"0", "1", "2", "3", "4", "5", "6", "7", "8", "9"}

Lower == {"a", "b", "c", "d", "e", "f", "g", "h", "i", "j", "k", "l", "m",
          "n", "o", "p", "q", "r", "s", "t", "u", "v", "w", "x", "y", "z"}

Upper == {"A", "B", "C", "D", "E", "F", "G", "H", "I", "J", "K", "L", "M",
          "N", "O", "P", "Q", "R", "S", "T", "U", "V", "W", "X", "Y", "Z"}

\* str.isalnum() on the characters the model uses
IsAlnum(c) == c \in Digits \cup Lower \cup Upper

\* the characters str.strip() removes and \s matches
Whitespace == {" ", "\t", "\n", "\r", "\f"}

\* the delimiters excluded by the character classes of URL_PATTERN
Delimiters == {"<", ">", "\"", "'", ")", "]", "}", ",", ";", "!"}

\* the two characters the last character class of URL_PATTERN also excludes
TrailingPunct == {".", ":"}

BULLET_PREFIXES == {"*", "-", "U+2022", "U+25CF", "+"}

URL_CHARS == {"/", "-", "_", ".", "~", ":", "?", "#", "[", "]", "@", "!",
              "$", "&", "'", "(", ")", "*", "+", ",", ";", "=", "%"}

HEX_CHARS == {"0", "1", "2", "3", "4", "5", "6", "7", "8", "9",
              "a", "b", "c", "d", "e", "f", "A", "B", "C", "D", "E", "F"}

\* the characters rstrip(".,;:!? ") removes
ContinuationTrailing == {".", ",", ";", ":", "!", "?", " "}

MIN_CONTINUATION_LENGTH == 5

MIN_HEX_SEGMENT_LENGTH == 8

\* URL_CHAR_RATIO_THRESHOLD = 0.85 as the fraction RatioNum85 / RatioDen85
RatioNum85 == 17
RatioDen85 == 20

\* HEX_CHAR_RATIO_THRESHOLD = 0.7 as the fraction RatioNum70 / RatioDen70
RatioNum70 == 7
RatioDen70 == 10

-----------------------------------------------------------------------------
(* String helpers: the str methods the code calls *)

MaxOf(S) == CHOOSE x \in S : \A y \in S : y <= x

MinOf(S) == CHOOSE x \in S : \A y \in S : x <= y

\* s.rstrip(cs)
RStripChars(s, cs) ==
    SubSeq(s, 1, MaxOf({k \in 0..Len(s) : k = 0 \/ s[k] \notin cs}))

\* s.lstrip(cs)
LStripChars(s, cs) ==
    SubSeq(s, MinOf({k \in 1..(Len(s) + 1) : k = Len(s) + 1 \/ s[k] \notin cs}),
           Len(s))

\* s.rstrip()
RStrip(s) == RStripChars(s, Whitespace)

\* s.strip()
Strip(s) == LStripChars(RStripChars(s, Whitespace), Whitespace)

\* Mutant of Split: empty pieces are dropped, as str.split() without an
\* argument would
RECURSIVE SplitDropEmpty(_, _)
SplitDropEmpty(s, c) ==
    LET at == {i \in 1..Len(s) : s[i] = c}
    IN  IF at = {} THEN (IF s = <<>> THEN <<>> ELSE <<s>>)
        ELSE LET i == MinOf(at)
                 rest == SplitDropEmpty(SubSeq(s, i + 1, Len(s)), c)
             IN  IF i = 1 THEN rest ELSE <<SubSeq(s, 1, i - 1)>> \o rest

\* s.split(c): the pieces between the occurrences of c, empty pieces kept
RECURSIVE Split(_, _)
Split(s, c) ==
    LET at == {i \in 1..Len(s) : s[i] = c}
    IN  IF at = {} THEN <<s>>
        ELSE LET i == MinOf(at)
             IN  <<SubSeq(s, 1, i - 1)>> \o Split(SubSeq(s, i + 1, Len(s)), c)

\* c.join(parts)
RECURSIVE Join(_, _)
Join(parts, c) ==
    IF Len(parts) = 0 THEN <<>>
    ELSE IF Len(parts) = 1 THEN parts[1]
    ELSE parts[1] \o <<c>> \o Join(Tail(parts), c)

\* whether p occurs in s starting at index i
StartsWithAt(s, i, p) ==
    /\ i + Len(p) - 1 <= Len(s)
    /\ \A k \in 1..Len(p) : s[i + k - 1] = p[k]

\* the number of characters of s that satisfy the class cls
CountIn(s, cls) == Cardinality({i \in 1..Len(s) : s[i] \in cls})

-----------------------------------------------------------------------------
(* URL_PATTERN *)

Https == <<"h", "t", "t", "p", "s", ":", "/", "/">>
Http == <<"h", "t", "t", "p", ":", "/", "/">>
Ftp == <<"f", "t", "p", ":", "/", "/">>
Www == <<"w", "w", "w", ".">>

\* (?:https?://|ftp://|www\.) at index i: the length matched, 0 when none
PrefixLenAt(s, i) ==
    IF StartsWithAt(s, i, Https) THEN Len(Https)
    ELSE IF StartsWithAt(s, i, Http) THEN Len(Http)
    ELSE IF StartsWithAt(s, i, Ftp) THEN Len(Ftp)
    ELSE IF StartsWithAt(s, i, Www) THEN Len(Www)
    ELSE 0

\* [^\s<>"')\]},;!]
IsBodyChar(c) == c \notin Whitespace \cup Delimiters

\* Mutant of IsLastChar: the last character class forgets "." and ":"
IsLastCharNoBackOff(c) == c \notin Whitespace \cup Delimiters

\* [^\s<>"')\]},;!.:]
IsLastChar(c) == c \notin Whitespace \cup Delimiters \cup TrailingPunct

\* the last index of the maximal run of body characters that starts at j
\* (j - 1 when s[j] is no body character)
BodyRunEnd(s, j) ==
    MaxOf({e \in (j - 1)..Len(s) : \A k \in j..e : IsBodyChar(s[k])})

\* the end of the match of URL_PATTERN that starts at i, 0 when there is none:
\* the greedy body backs off to the last character that may end a match
MatchEndAt(s, i) ==
    LET p == PrefixLenAt(s, i)
        r == BodyRunEnd(s, i + p)
        ends == {e \in (i + p)..r : IsLastChar(s[e])}
    IN  IF p = 0 \/ ends = {} THEN 0 ELSE MaxOf(ends)

\* the start of the first match at or after index from, 0 when there is none
NextMatchStart(s, from) ==
    LET starts == {i \in from..Len(s) : MatchEndAt(s, i) # 0}
    IN  IF starts = {} THEN 0 ELSE MinOf(starts)

\* URL_PATTERN.search(s)
PatternSearch(s) == NextMatchStart(s, 1) # 0

\* the start indices of the hits of URL_PATTERN.findall(s) at or after index
\* from: non-overlapping, left to right
RECURSIVE MatchStartsFrom(_, _)
MatchStartsFrom(s, from) ==
    LET i == NextMatchStart(s, from)
    IN  IF i = 0 THEN {}
        ELSE {i} \cup MatchStartsFrom(s, MatchEndAt(s, i) + 1)

-----------------------------------------------------------------------------
(* Hex artifact correction *)

\* Mutant of OcrHexFix: the table has one more entry, B -> 8
OcrHexFixExtraEntry(c) ==
    CASE c = "O" -> "0"
      [] c = "Q" -> "0"
      [] c = "l" -> "1"
      [] c = "I" -> "1"
      [] c = "S" -> "5"
      [] c = "G" -> "6"
      [] c = "B" -> "8"
      [] OTHER -> c

\* Mutant of OcrHexFix: l is mapped to I, itself a mapped character
OcrHexFixChained(c) ==
    CASE c = "O" -> "0"
      [] c = "Q" -> "0"
      [] c = "l" -> "I"
      [] c = "I" -> "1"
      [] c = "S" -> "5"
      [] c = "G" -> "6"
      [] OTHER -> c

\* OCR_HEX_FIXES.get(c, c)
OcrHexFix(c) ==
    CASE c = "O" -> "0"
      [] c = "Q" -> "0"
      [] c = "l" -> "1"
      [] c = "I" -> "1"
      [] c = "S" -> "5"
      [] c = "G" -> "6"
      [] OTHER -> c

\* the length and hex-density test of _fix_hex_segment
IsHexSegment(segment) ==
    /\ Len(segment) >= MIN_HEX_SEGMENT_LENGTH
    /\ RatioDen70 * CountIn(segment, HEX_CHARS) >= RatioNum70 * Len(segment)

FixHexSegment(segment) ==
    IF IsHexSegment(segment)
    THEN [i \in 1..Len(segment) |-> OcrHexFix(segment[i])]
    ELSE segment

\* the length of https?:// at the start of u, 0 when u starts with neither
SchemeLen(u) ==
    IF StartsWithAt(u, 1, Https) THEN Len(Https)
    ELSE IF StartsWithAt(u, 1, Http) THEN Len(Http)
    ELSE 0

\* Mutant of HostLen: group 1 is the scheme alone, the authority falls into
\* the path
HostLenSchemeOnly(u) == SchemeLen(u)

\* the length of group 1 of re.match(r"(https?://[^/]+)(.*)", u), 0 when the
\* pattern does not match: the scheme and the run of non-slash characters,
\* which must not be empty
HostLen(u) ==
    LET p == SchemeLen(u)
        e == MaxOf({k \in p..Len(u) : \A j \in (p + 1)..k : u[j] # "/"})
    IN  IF p = 0 \/ e = p THEN 0 ELSE e

\* group 2: "." does not match a line feed, so (.*) ends before the first one
PathOf(u) ==
    LET h == HostLen(u)
        e == MaxOf({k \in h..Len(u) : \A j \in (h + 1)..k : u[j] # "\n"})
    IN  SubSeq(u, h + 1, e)

FixSegmentList(ss) == [i \in 1..Len(ss) |-> FixHexSegment(ss[i])]

FixOcrArtifacts(u) ==
    IF HostLen(u) = 0 THEN u
    ELSE SubSeq(u, 1, HostLen(u)) \o Join(FixSegmentList(Split(PathOf(u), "/")), "/")

\* dict.fromkeys(items) filled item by item: a key keeps its first position
RECURSIVE DedupInto(_, _)
DedupInto(acc, items) ==
    IF items = <<>> THEN acc
    ELSE DedupInto(IF \E i \in 1..Len(acc) : acc[i] = Head(items)
                   THEN acc
                   ELSE Append(acc, Head(items)),
                   Tail(items))

\* Mutant of Deduplicate: nothing is removed
DeduplicateKeepAll(items) == items

Deduplicate(items) == DedupInto(<<>>, items)

-----------------------------------------------------------------------------
(* Line rejoining *)

\* cleaned = line.strip().rstrip(".,;:!? ")
Cleaned(line) == RStripChars(Strip(line), ContinuationTrailing)

LooksLikeUrlContinuation(line) ==
    LET cleaned == Cleaned(line)
        url_char_count ==
            Cardinality({i \in 1..Len(cleaned) :
                            IsAlnum(cleaned[i]) \/ cleaned[i] \in URL_CHARS})
    IN  /\ cleaned # <<>>
        /\ \A i \in 1..Len(cleaned) : cleaned[i] # " "
        /\ RatioDen85 * url_char_count >= RatioNum85 * Len(cleaned)
        /\ Len(cleaned) >= MIN_CONTINUATION_LENGTH

\* stripped_line.startswith(BULLET_PREFIXES)
StartsWithBullet(s) == Len(s) > 0 /\ s[1] \in BULLET_PREFIXES

ShouldJoinToPrevious(merged_lines, stripped_line) ==
    /\ Len(merged_lines) > 0
    /\ PatternSearch(merged_lines[Len(merged_lines)])
    /\ stripped_line # <<>>
    /\ ~StartsWithBullet(stripped_line)
    /\ LooksLikeUrlContinuation(stripped_line)

-----------------------------------------------------------------------------
(* Inputs *)

\* the longest input, in tokens
MaxTokens == 5

RECURSIVE Flatten(_)
Flatten(ss) == IF ss = <<>> THEN <<>> ELSE Head(ss) \o Flatten(Tail(ss))

\* every concatenation of at most n of the tokens toks
Concats(toks, n) ==
    {Flatten(ts) : ts \in UNION {[1..k -> toks] : k \in 0..n}}

TextTokens ==
    { <<"h", "t", "t", "p", ":", "/", "/", "a", "/", "9", "6", "1", "1">>,
      <<"Q", "a", "e", "b", "a">>,
      <<"O", "a", "e", "b", "a">>,
      <<" ">>, <<"\n">>, <<"\t">>, <<"-">> }

Texts == Concats(TextTokens, MaxTokens)

-----------------------------------------------------------------------------
(* find_urls *)

Init ==
    /\ pc = "split"
    /\ text \in Texts
    /\ lines = <<>>
    /\ idx = 1
    /\ merged = <<>>
    /\ joined = {}
    /\ rejoined = <<>>
    /\ pos = 1
    /\ urls = <<>>
    /\ fixed = <<>>
    /\ result = <<>>
    /\ url = <<>>
    /\ host = <<>>
    /\ segs = <<>>
    /\ fixedSegs = <<>>
    /\ out = <<>>
    /\ first = <<>>
    /\ pass = 0

\* lines = text.split("\n"); merged = []
SplitLines ==
    /\ pc = "split"
    /\ lines' = Split(text, "\n")
    /\ idx' = 1
    /\ merged' = <<>>
    /\ pc' = "rejoin"
    /\ UNCHANGED <<text, joined, rejoined, pos, urls, fixed, result,
                   url, host, segs, fixedSegs, out, first, pass>>

\* one iteration of the loop, the branch that merges the line
JoinLine ==
    /\ pc = "rejoin"
    /\ idx <= Len(lines)
    /\ LET stripped == Strip(lines[idx])
       IN  /\ ShouldJoinToPrevious(merged, stripped)
           /\ merged' = [merged EXCEPT ![Len(merged)] = RStrip(@) \o stripped]
    /\ joined' = joined \cup {idx}
    /\ idx' = idx + 1
    /\ UNCHANGED <<pc, text, lines, rejoined, pos, urls, fixed, result,
                   url, host, segs, fixedSegs, out, first, pass>>

\* Mutant of AppendLine: the trimmed line is kept instead of the line
AppendLineStripped ==
    /\ pc = "rejoin"
    /\ idx <= Len(lines)
    /\ ~ShouldJoinToPrevious(merged, Strip(lines[idx]))
    /\ merged' = Append(merged, Strip(lines[idx]))
    /\ idx' = idx + 1
    /\ UNCHANGED <<pc, text, lines, joined, rejoined, pos, urls, fixed, result,
                   url, host, segs, fixedSegs, out, first, pass>>

\* one iteration of the loop, the branch that keeps the line
AppendLine ==
    /\ pc = "rejoin"
    /\ idx <= Len(lines)
    /\ ~ShouldJoinToPrevious(merged, Strip(lines[idx]))
    /\ merged' = Append(merged, lines[idx])
    /\ idx' = idx + 1
    /\ UNCHANGED <<pc, text, lines, joined, rejoined, pos, urls, fixed, result,
                   url, host, segs, fixedSegs, out, first, pass>>

\* return "\n".join(merged)
RejoinDone ==
    /\ pc = "rejoin"
    /\ idx > Len(lines)
    /\ rejoined' = Join(merged, "\n")
    /\ pos' = 1
    /\ urls' = <<>>
    /\ pc' = "match"
    /\ UNCHANGED <<text, lines, idx, merged, joined, fixed, result,
                   url, host, segs, fixedSegs, out, first, pass>>

\* URL_PATTERN.findall: the next hit
MatchOne ==
    /\ pc = "match"
    /\ NextMatchStart(rejoined, pos) # 0
    /\ LET i == NextMatchStart(rejoined, pos)
           e == MatchEndAt(rejoined, i)
       IN  /\ urls' = Append(urls, SubSeq(rejoined, i, e))
           /\ pos' = e + 1
    /\ UNCHANGED <<pc, text, lines, idx, merged, joined, rejoined, fixed, result,
                   url, host, segs, fixedSegs, out, first, pass>>

\* URL_PATTERN.findall: no hit is left
MatchEnd ==
    /\ pc = "match"
    /\ NextMatchStart(rejoined, pos) = 0
    /\ pc' = "matched"
    /\ UNCHANGED <<text, lines, idx, merged, joined, rejoined, pos, urls, fixed,
                   result, url, host, segs, fixedSegs, out, first, pass>>

\* urls = [_fix_ocr_artifacts(u) for u in urls]
FixAll ==
    /\ pc = "matched"
    /\ fixed' = [i \in 1..Len(urls) |-> FixOcrArtifacts(urls[i])]
    /\ pc' = "dedup"
    /\ UNCHANGED <<text, lines, idx, merged, joined, rejoined, pos, urls, result,
                   url, host, segs, fixedSegs, out, first, pass>>

\* Mutant of Dedup: duplicates are removed among the hits as matched, and the
\* correction is applied to what is left
DedupBeforeCorrection ==
    /\ pc = "dedup"
    /\ result' = [i \in 1..Len(Deduplicate(urls)) |->
                      FixOcrArtifacts(Deduplicate(urls)[i])]
    /\ pc' = "done"
    /\ UNCHANGED <<text, lines, idx, merged, joined, rejoined, pos, urls, fixed,
                   url, host, segs, fixedSegs, out, first, pass>>

\* return _deduplicate(urls)
Dedup ==
    /\ pc = "dedup"
    /\ result' = Deduplicate(fixed)
    /\ pc' = "done"
    /\ UNCHANGED <<text, lines, idx, merged, joined, rejoined, pos, urls, fixed,
                   url, host, segs, fixedSegs, out, first, pass>>

Next ==
    \/ SplitLines
    \/ JoinLine
    \/ AppendLine
    \/ RejoinDone
    \/ MatchOne
    \/ MatchEnd
    \/ FixAll
    \/ Dedup

Spec == Init /\ [][Next]_vars

-----------------------------------------------------------------------------
(* URL_PATTERN.findall on its own *)

\* the longest text given to the matcher, in tokens
MaxMatchTokens == 4

MatchTokens ==
    { Https, Http, Ftp, Www, <<"a">>, <<".">>, <<":">>, <<" ">>, <<")">> }

MatchTexts == Concats(MatchTokens, MaxMatchTokens)

InitMatch ==
    /\ pc = "match"
    /\ text \in MatchTexts
    /\ rejoined = text
    /\ lines = <<>>
    /\ idx = 1
    /\ merged = <<>>
    /\ joined = {}
    /\ pos = 1
    /\ urls = <<>>
    /\ fixed = <<>>
    /\ result = <<>>
    /\ url = <<>>
    /\ host = <<>>
    /\ segs = <<>>
    /\ fixedSegs = <<>>
    /\ out = <<>>
    /\ first = <<>>
    /\ pass = 0

NextMatch ==
    \/ MatchOne
    \/ MatchEnd

SpecMatch == InitMatch /\ [][NextMatch]_vars

-----------------------------------------------------------------------------
(* _fix_ocr_artifacts on its own, applied to a URL and then to its result *)

\* the longest URL given to the corrector, in tokens after the scheme
MaxUrlTokens == 4

\* how many times the corrector is applied in a row
MaxPasses == 2

UrlTokens ==
    { <<"/">>, <<"a", "1", "B", "2", "c", "3", "d", "Q">>, <<"l", "I">>,
      <<"O", "S", "G">>, <<"x">>, <<"9">> }

Schemes == { Https, Http, Ftp, Www }

UrlInputs == {sch \o body : sch \in Schemes, body \in Concats(UrlTokens, MaxUrlTokens)}

InitFix ==
    /\ pc = "fix_match"
    /\ url \in UrlInputs
    /\ first = url
    /\ pass = 1
    /\ host = <<>>
    /\ segs = <<>>
    /\ fixedSegs = <<>>
    /\ out = <<>>
    /\ text = <<>>
    /\ rejoined = <<>>
    /\ lines = <<>>
    /\ idx = 1
    /\ merged = <<>>
    /\ joined = {}
    /\ pos = 1
    /\ urls = <<>>
    /\ fixed = <<>>
    /\ result = <<>>

\* if not match: return url
FixNoMatch ==
    /\ pc = "fix_match"
    /\ HostLen(url) = 0
    /\ out' = url
    /\ pc' = "fix_done"
    /\ UNCHANGED <<text, lines, idx, merged, joined, rejoined, pos, urls, fixed,
                   result, url, host, segs, fixedSegs, first, pass>>

\* host = match.group(1); path = match.group(2); path.split("/")
FixSplit ==
    /\ pc = "fix_match"
    /\ HostLen(url) # 0
    /\ host' = SubSeq(url, 1, HostLen(url))
    /\ segs' = Split(PathOf(url), "/")
    /\ pc' = "fix_segments"
    /\ UNCHANGED <<text, lines, idx, merged, joined, rejoined, pos, urls, fixed,
                   result, url, fixedSegs, out, first, pass>>

\* fixed_segments = [_fix_hex_segment(s) for s in ...]
FixSegments ==
    /\ pc = "fix_segments"
    /\ fixedSegs' = FixSegmentList(segs)
    /\ pc' = "fix_join"
    /\ UNCHANGED <<text, lines, idx, merged, joined, rejoined, pos, urls, fixed,
                   result, url, host, segs, out, first, pass>>

\* return host + "/".join(fixed_segments)
FixJoin ==
    /\ pc = "fix_join"
    /\ out' = host \o Join(fixedSegs, "/")
    /\ pc' = "fix_done"
    /\ UNCHANGED <<text, lines, idx, merged, joined, rejoined, pos, urls, fixed,
                   result, url, host, segs, fixedSegs, first, pass>>

\* the corrector is applied to its own result
FixAgain ==
    /\ pc = "fix_done"
    /\ pass < MaxPasses
    /\ url' = out
    /\ pass' = pass + 1
    /\ host' = <<>>
    /\ segs' = <<>>
    /\ fixedSegs' = <<>>
    /\ out' = <<>>
    /\ pc' = "fix_match"
    /\ UNCHANGED <<text, lines, idx, merged, joined, rejoined, pos, urls, fixed,
                   result, first>>

NextFix ==
    \/ FixNoMatch
    \/ FixSplit
    \/ FixSegments
    \/ FixJoin
    \/ FixAgain

SpecFix == InitFix /\ [][NextFix]_vars

-----------------------------------------------------------------------------
(* Properties of find_urls *)

\* C1: the list find_urls returns holds no two equal strings.
C1_NoDuplicates ==
    pc = "done" =>
        \A i, j \in 1..Len(result) : i # j => result[i] # result[j]

\* a run of find_urls in which a repeated URL was removed
C1_Witness ==
    /\ pc = "done"
    /\ Len(result) >= 1
    /\ Len(fixed) > Len(result)

\* the positions of xs that hold a value for the first time
FirstOccurrences(xs) ==
    {i \in 1..Len(xs) : \A j \in 1..(i - 1) : xs[j] # xs[i]}

\* C2: the list find_urls returns is the sequence of the distinct corrected
\* matcher hits of the rejoined text, each at the place of its first
\* occurrence; two different hits with the same correction give one entry.
C2_DedupAfterCorrection ==
    pc = "done" =>
        LET firsts == FirstOccurrences(fixed)
        IN  /\ Len(fixed) = Len(urls)
            /\ \A i \in 1..Len(urls) : fixed[i] = FixOcrArtifacts(urls[i])
            /\ Len(result) = Cardinality(firsts)
            /\ \A i \in firsts :
                   result[Cardinality({j \in firsts : j <= i})] = fixed[i]
            /\ \A i, j \in 1..Len(urls) :
                   (urls[i] # urls[j] /\ fixed[i] = fixed[j]) =>
                       Cardinality({k \in 1..Len(result) : result[k] = fixed[i]}) = 1

\* two different hits were corrected to the same URL
C2_Witness ==
    /\ pc = "done"
    /\ \E i, j \in 1..Len(urls) : urls[i] # urls[j] /\ fixed[i] = fixed[j]

-----------------------------------------------------------------------------
(* Properties of _fix_ocr_artifacts and _fix_hex_segment *)

BeginsWithHttp(u) == StartsWithAt(u, 1, Http) \/ StartsWithAt(u, 1, Https)

\* scheme plus authority: everything before the first "/" after the scheme
HostComponent(u) ==
    LET p == IF StartsWithAt(u, 1, Https) THEN Len(Https) ELSE Len(Http)
        slashes == {k \in (p + 1)..Len(u) : u[k] = "/"}
    IN  IF slashes = {} THEN u ELSE SubSeq(u, 1, MinOf(slashes) - 1)

\* the authority alone
Authority(u) ==
    LET p == IF StartsWithAt(u, 1, Https) THEN Len(Https) ELSE Len(Http)
    IN  SubSeq(HostComponent(u), p + 1, Len(HostComponent(u)))

IsPrefix(p, s) == Len(p) <= Len(s) /\ SubSeq(s, 1, Len(p)) = p

\* the characters OCR_HEX_FIXES replaces
MappedChars == {"O", "Q", "l", "I", "S", "G"}

HasMappedChar(s) == \E k \in 1..Len(s) : s[k] \in MappedChars

\* C3: for a URL that begins with http:// or https://, the host component is
\* a prefix of the corrected URL, character for character.
C3_HostNeverMutated ==
    (pc = "fix_done" /\ BeginsWithHttp(url)) =>
        IsPrefix(HostComponent(url), out)

\* a URL whose path was corrected while its host, long, hex-dense and holding
\* a mapped character, was not
C3_Witness ==
    /\ pc = "fix_done"
    /\ BeginsWithHttp(url)
    /\ out # url
    /\ IsHexSegment(Authority(url))
    /\ HasMappedChar(Authority(url))

\* C4 as stated: _fix_hex_segment keeps the length of a segment and every
\* character of it that is outside 0-9a-fA-F.
C4_KeepsNonHexChars ==
    pc = "fix_join" =>
        \A i \in 1..Len(segs) :
            /\ Len(fixedSegs[i]) = Len(segs[i])
            /\ \A k \in 1..Len(segs[i]) :
                   segs[i][k] \notin HEX_CHARS => fixedSegs[i][k] = segs[i][k]

\* C4 as amended: _fix_hex_segment keeps the length of a segment and every
\* character of it other than O, Q, l, I, S and G; in the place of one of
\* these six it leaves the character or puts a decimal digit.
C4_KeepsUnmappedChars ==
    pc = "fix_join" =>
        \A i \in 1..Len(segs) :
            /\ Len(fixedSegs[i]) = Len(segs[i])
            /\ \A k \in 1..Len(segs[i]) :
                   IF segs[i][k] \in MappedChars
                   THEN fixedSegs[i][k] \in {segs[i][k]} \cup Digits
                   ELSE fixedSegs[i][k] = segs[i][k]

\* a corrected segment that also holds a character that is neither a hex
\* digit nor mapped
C4_Witness ==
    /\ pc = "fix_join"
    /\ \E i \in 1..Len(segs) :
           /\ fixedSegs[i] # segs[i]
           /\ \E k \in 1..Len(segs[i]) :
                  segs[i][k] \notin HEX_CHARS \cup MappedChars

\* C5: correcting a corrected URL changes nothing; a corrected segment still
\* meets the length and density test and holds no mapped character, and the
\* second application changes no segment.
C5_Idempotent ==
    /\ (pc = "fix_done" /\ pass >= 2) => out = url
    /\ (pc = "fix_join" /\ pass >= 2) =>
           \A i \in 1..Len(segs) : fixedSegs[i] = segs[i]
    /\ pc = "fix_join" =>
           \A i \in 1..Len(segs) :
               fixedSegs[i] # segs[i] =>
                   IsHexSegment(fixedSegs[i]) /\ ~HasMappedChar(fixedSegs[i])

\* the second application has returned, on a URL the first one changed
C5_Witness ==
    /\ pc = "fix_done"
    /\ pass = 2
    /\ url # first
    /\ HostLen(url) # 0

SlashPositions(s) == {k \in 1..Len(s) : s[k] = "/"}

\* C9: for a URL that begins with http:// or https://, the corrected URL has
\* "/" at exactly the positions where the URL has it.
C9_SlashPlacementKept ==
    (pc = "fix_done" /\ BeginsWithHttp(url)) =>
        /\ Len(out) = Len(url)
        /\ SlashPositions(out) = SlashPositions(url)

\* a corrected URL whose path holds an empty segment
C9_Witness ==
    /\ pc = "fix_done"
    /\ BeginsWithHttp(url)
    /\ out # url
    /\ \E i \in 1..Len(segs) : i > 1 /\ segs[i] = <<>>

-----------------------------------------------------------------------------
(* Properties of URL_PATTERN *)

\* C6: a hit of the matcher is the piece of the text that ends before the
\* scan position; it begins with one of the four prefixes, holds no
\* whitespace and no delimiter, does not end with "." or ":", and the text
\* after it holds only "." and ":" up to the next whitespace, delimiter or
\* end of text.
C6_MatchConformsToGrammar ==
    (pc \in {"match", "matched"} /\ urls # <<>>) =>
        LET u == urls[Len(urls)]
            e == pos - 1
            b == e - Len(u) + 1
        IN  /\ b >= 1
            /\ SubSeq(rejoined, b, e) = u
            /\ \E p \in {Https, Http, Ftp, Www} : StartsWithAt(u, 1, p)
            /\ \A k \in 1..Len(u) : u[k] \notin Whitespace \cup Delimiters
            /\ u[Len(u)] \notin {".", ":"}
            /\ \A k \in (e + 1)..Len(rejoined) :
                   (\A j \in (e + 1)..k :
                        rejoined[j] \notin Whitespace \cup Delimiters)
                       => rejoined[k] \in {".", ":"}

\* a hit that holds "." or ":" after its prefix and is followed by one
C6_Witness ==
    /\ pc = "match"
    /\ urls # <<>>
    /\ pos <= Len(rejoined)
    /\ rejoined[pos] \in {".", ":"}
    /\ LET u == urls[Len(urls)]
       IN  \E k \in (PrefixLenAt(u, 1) + 1)..Len(u) : u[k] \in {".", ":"}

-----------------------------------------------------------------------------
(* Properties of rejoin_wrapped_urls *)

IsNonWhitespace(c) == c \notin Whitespace

NonWhitespace(s) == SelectSeq(s, IsNonWhitespace)

\* how many of the first i lines were kept as lines of their own
KeptUpTo(i) == Cardinality({j \in 1..i : j \notin joined})

\* the last line of the run of merged lines that follows line i
RunEndAfter(i) ==
    MaxOf({j \in i..Len(lines) : \A m \in (i + 1)..j : m \in joined})

\* lines a to b, each trimmed, one after the other
RECURSIVE TrimmedRun(_, _)
TrimmedRun(a, b) ==
    IF a > b THEN <<>> ELSE Strip(lines[a]) \o TrimmedRun(a + 1, b)

\* C7: the rejoined text holds the non-whitespace characters of the text, in
\* order; its lines are the lines that were not merged, in order, each
\* unchanged, or right-trimmed and followed by the merged lines after it,
\* trimmed.
C7_RejoinOnlyRemovesWhitespace ==
    pc \in {"match", "matched", "dedup", "done"} =>
        /\ NonWhitespace(rejoined) = NonWhitespace(text)
        /\ Split(rejoined, "\n") = merged
        /\ Len(merged) = Len(lines) - Cardinality(joined)
        /\ \A i \in 1..Len(lines) :
               i \notin joined =>
                   merged[KeptUpTo(i)] =
                       IF RunEndAfter(i) = i
                       THEN lines[i]
                       ELSE RStrip(lines[i]) \o TrimmedRun(i + 1, RunEndAfter(i))

\* a line that ends with whitespace took a continuation, and another line
\* stayed a line of its own
C7_Witness ==
    /\ pc = "match"
    /\ \E i \in 1..(Len(lines) - 1) :
           i \notin joined /\ (i + 1) \in joined /\ RStrip(lines[i]) # lines[i]
    /\ \E i \in 1..Len(lines) : i \notin joined /\ RunEndAfter(i) = i

HasWhitespace(s) == \E k \in 1..Len(s) : s[k] \in Whitespace

\* C10: a line whose cleaned form (trimmed, then stripped of trailing
\* . , ; : ! ? and spaces) holds a whitespace character is never merged into
\* the line before it.
C10_NoWhitespaceInContinuation ==
    \A i \in joined : ~HasWhitespace(Cleaned(lines[i]))

-----------------------------------------------------------------------------
(* Properties of find_urls on a wrapped URL *)

\* C8: when a line, right-trimmed, ends with an http(s) matcher hit h, the
\* next line, trimmed, is a string t that passes the continuation test, does
\* not start with a bullet marker, holds no matcher delimiter and does not
\* end with "." or ":", and the line after t is not merged in turn, then t is
\* merged and find_urls returns the correction of h followed by t.
C8_TwoLineWrapRejoined ==
    pc = "done" =>
        \A k \in 1..(Len(lines) - 1) :
            LET ln == RStrip(lines[k])
                t == Strip(lines[k + 1])
            IN  \A b \in MatchStartsFrom(ln, 1) :
                    LET h == SubSeq(ln, b, Len(ln))
                    IN  ( /\ MatchEndAt(ln, b) = Len(ln)
                          /\ BeginsWithHttp(h)
                          /\ LooksLikeUrlContinuation(t)
                          /\ ~StartsWithBullet(t)
                          /\ \A m \in 1..Len(t) : t[m] \notin Delimiters
                          /\ t[Len(t)] \notin TrailingPunct
                          /\ (k + 2) \notin joined )
                        => /\ (k + 1) \in joined
                           /\ \E r \in 1..Len(result) :
                                  result[r] = FixOcrArtifacts(h \o t)

-----------------------------------------------------------------------------
(* Properties of rejoin_wrapped_urls on URL-bearing lines *)

\* the hits of URL_PATTERN.findall(s), as a set
HitsOf(s) == {SubSeq(s, b, MatchEndAt(s, b)) : b \in MatchStartsFrom(s, 1)}

\* C11: a line that holds a matcher hit is never merged into the line before
\* it, so when two consecutive lines each hold hits, find_urls returns the
\* correction of every hit of the second line.
C11_UrlBearingLineNeverMerged ==
    pc = "done" =>
        /\ \A i \in joined : ~PatternSearch(lines[i])
        /\ \A k \in 1..(Len(lines) - 1) :
               (PatternSearch(lines[k]) /\ PatternSearch(lines[k + 1])) =>
                   \A h \in HitsOf(lines[k + 1]) :
                       \E r \in 1..Len(result) : result[r] = FixOcrArtifacts(h)

====
